---------------------------- MODULE Spec2Model ----------------------------
(***************************************************************************)
(* Model of Program/Formatters/formatter_mathematica.py: the state         *)
(* renderer MathematicaFormatter.get_state (exact rendering and the        *)
(* mean-field reduction) and the equation assembler                        *)
(* MathematicaFormatter.get_equation.                                      *)
(*                                                                         *)
(* Text is a sequence of one-character strings, so that splitting,         *)
(* joining, stripping and prefix scanning are computed character by        *)
(* character as the Python code computes them.                             *)
(*                                                                         *)
(* Python values carry their type where the code tests it:                 *)
(*   state    [tuple |-> BOOLEAN, items |-> sequence of entries]           *)
(*   entry    [tuple |-> BOOLEAN, items |-> <<label, index, ...>>]         *)
(*   weighted state   a sequence, <<state, multiplicity>> when well formed *)
(*   dict     [dict |-> BOOLEAN, pairs |-> sequence of [key, val]],        *)
(*            the pairs in insertion order, the keys distinct              *)
(*   equation [tuple |-> BOOLEAN, items |-> <<state, dict, dict>>]         *)
(* A call ends in a result: a returned text or a raised exception.         *)
(***************************************************************************)
EXTENDS Integers, Sequences, FiniteSets, TLC

---------------------------------------------------------------------------
(* Bounds of the checked input space. *)

\* Longest state handed to get_state.
MaxLen == 5

\* Largest order handed to get_state (orders start at -1).
MaxOrder == 6

\* Largest order handed to get_equation (orders start at 0).
MaxEqOrder == 2

\* Longest creation or decay list of a rate key.
MaxList == 2

---------------------------------------------------------------------------
(* Text helpers: Python's str operations on sequences of characters. *)

DigitChars == <<"0", "1", "2", "3", "4", "5", "6", "7", "8", "9">>

\* str(n) for an integer n.
RECURSIVE StrNat(_)
StrNat(n) ==
    IF n < 10 THEN <<DigitChars[n + 1]>>
    ELSE StrNat(n \div 10) \o <<DigitChars[(n % 10) + 1]>>

Str(n) == IF n < 0 THEN <<"-">> \o StrNat(0 - n) ELSE StrNat(n)

\* str.isnumeric on one character.
IsNumeric(c) == \E d \in 1..Len(DigitChars) : DigitChars[d] = c

\* str.upper on one character.
UpperChar(c) ==
    CASE c = "a" -> "A" [] c = "b" -> "B" [] c = "c" -> "C" [] c = "d" -> "D"
      [] c = "e" -> "E" [] c = "f" -> "F" [] c = "g" -> "G" [] c = "h" -> "H"
      [] c = "i" -> "I" [] c = "j" -> "J" [] c = "k" -> "K" [] c = "l" -> "L"
      [] c = "m" -> "M" [] c = "n" -> "N" [] c = "o" -> "O" [] c = "p" -> "P"
      [] c = "q" -> "Q" [] c = "r" -> "R" [] c = "s" -> "S" [] c = "t" -> "T"
      [] c = "u" -> "U" [] c = "v" -> "V" [] c = "w" -> "W" [] c = "x" -> "X"
      [] c = "y" -> "Y" [] c = "z" -> "Z" [] OTHER -> c

Upper(s) == [i \in 1..Len(s) |-> UpperChar(s[i])]

\* s.split(c) for a one-character separator c: always at least one piece.
SeparatorPositions(s, c) ==
    SelectSeq([i \in 1..Len(s) |-> i], LAMBDA i : s[i] = c)

Split(s, c) ==
    LET at == SeparatorPositions(s, c)
    IN  [k \in 1..(Len(at) + 1) |->
            SubSeq(s, IF k = 1 THEN 1 ELSE at[k - 1] + 1,
                      IF k = Len(at) + 1 THEN Len(s) ELSE at[k] - 1)]

\* sep.join(parts).
RECURSIVE Join(_, _)
Join(sep, parts) ==
    IF parts = <<>> THEN <<>>
    ELSE IF Len(parts) = 1 THEN parts[1]
    ELSE parts[1] \o sep \o Join(sep, Tail(parts))

\* s.strip(): the only whitespace character of the model's texts is " ".
RECURSIVE LStrip(_)
LStrip(s) == IF s # <<>> /\ Head(s) = " " THEN LStrip(Tail(s)) ELSE s

RECURSIVE RStrip(_)
RStrip(s) ==
    IF s # <<>> /\ s[Len(s)] = " " THEN RStrip(SubSeq(s, 1, Len(s) - 1)) ELSE s

Strip(s) == RStrip(LStrip(s))

\* s[i:] with a 0-based i.
From(s, i) == SubSeq(s, i + 1, Len(s))

---------------------------------------------------------------------------
(* Results of a call. *)

Return(text) == [raised |-> FALSE, exc |-> "", text |-> text]

Raise(exc) == [raised |-> TRUE, exc |-> exc, text |-> <<>>]

NoResult == [raised |-> FALSE, exc |-> "pending", text |-> <<>>]

---------------------------------------------------------------------------
(* get_rate. *)

get_rate(rate) == Upper(Join(<<>>, Split(rate, ".")))

---------------------------------------------------------------------------
(* get_state and its nested helpers. *)

format_entry(entry0) == entry0.items[1] \o Str(entry0.items[2])

get_state_string(state0) ==
    <<"P">> \o Join(<<>>, [i \in 1..Len(state0) |-> format_entry(state0[i])])
            \o <<"[", "t", "]">>

\* The exception validate_state raises, or "" when the state passes.
RECURSIVE BadEntryFrom(_, _)
BadEntryFrom(items, j) ==
    IF j > Len(items) THEN ""
    ELSE IF ~items[j].tuple THEN "TypeError"
    ELSE IF Len(items[j].items) # 2 THEN "TypeError"
    ELSE BadEntryFrom(items, j + 1)

\* validate_state without the isinstance test of the state.
validate_state_no_type(state, order) ==
    IF ~(0 <= order) THEN "ValueError"
    ELSE BadEntryFrom(state.items, 1)

validate_state(state, order) ==
    IF ~(0 <= order) THEN "ValueError"
    ELSE IF ~state.tuple THEN "TypeError"
    ELSE BadEntryFrom(state.items, 1)

\* get_numerator breaking at i + order >= len(state): the last window is lost.
get_numerator_short(state, order) ==
    [i \in 1..(IF Len(state) > order THEN Len(state) - order ELSE 0)
        |-> SubSeq(state, i, i + order - 1)]

\* The windows state[i: i + order] for every i with i + order <= len(state).
get_numerator(state, order) ==
    [i \in 1..(IF Len(state) >= order THEN Len(state) - order + 1 ELSE 0)
        |-> SubSeq(state, i, i + order - 1)]

\* The distinct elements of a sequence, in order of first occurrence.
RECURSIVE Distinct(_, _)
Distinct(s, j) ==
    IF j > Len(s) THEN <<>>
    ELSE (IF \A x \in 1..(j - 1) : s[x] # s[j] THEN <<s[j]>> ELSE <<>>)
           \o Distinct(s, j + 1)

Elements(s) == {s[i] : i \in 1..Len(s)}

\* The iteration order of a set is the order of its hash table, and that
\* follows from the hashes of the entries, which change from one interpreter
\* run to the next. seed is the run: it maps an entry to its hash, written as
\* base-32 digits, lowest first. An entry seed does not hold hashes to 0.
hash(key, seed) == IF key \in DOMAIN seed THEN seed[key] ELSE <<>>

\* The interpreter's set object: the smallest table, the linear probes made
\* before the next jump, and the bits the hash is shifted by after a jump.
PySet_MINSIZE == 8

LINEAR_PROBES == 9

PERTURB_SHIFT == 5

Digit(h, k) == IF k < Len(h) THEN h[k + 1] ELSE 0

\* The hash shifted k times by PERTURB_SHIFT bits, as far as a table of up to
\* 1024 slots reads it.
Perturb(h, k) == Digit(h, k) + (2 ^ PERTURB_SHIFT) * Digit(h, k + 1)

\* The first unused slot among j..last, or -1. Slots count from 0 and a
\* table is the sequence of its slots, each <<>> or <<key>>.
RECURSIVE LinearFree(_, _, _)
LinearFree(table, j, last) ==
    IF j > last THEN 0 - 1
    ELSE IF table[j + 1] = <<>> THEN j
    ELSE LinearFree(table, j + 1, last)

\* The slot a new key is stored in: probing starts at slot i after k jumps.
RECURSIVE find_slot(_, _, _, _)
find_slot(table, h, i, k) ==
    LET mask == Len(table) - 1
        probes == IF i + LINEAR_PROBES <= mask THEN LINEAR_PROBES ELSE 0
        free == LinearFree(table, i, i + probes)
    IN  IF free >= 0 THEN free
        ELSE find_slot(table, h,
                       (i * 5 + 1 + Perturb(h, k + 1)) % (mask + 1), k + 1)

set_insert_clean(table, key, seed) ==
    LET h == hash(key, seed)
    IN  [table EXCEPT ![find_slot(table, h, Perturb(h, 0) % Len(table), 0) + 1] =
                          <<key>>]

RECURSIVE set_insert_all(_, _, _, _)
set_insert_all(table, entries, i, seed) ==
    IF i > Len(entries) THEN table
    ELSE set_insert_all(set_insert_clean(table, entries[i], seed),
                        entries, i + 1, seed)

\* list(a_set): the keys in slot order.
set_list(table) == Join(<<>>, table)

RECURSIVE GrowSize(_, _)
GrowSize(size, minused) ==
    IF size > minused THEN size ELSE GrowSize(2 * size, minused)

\* The table rebuilt with room for four times its keys, the keys stored
\* anew in the order of the old table.
set_table_resize(table, seed) ==
    CHOOSE grown \in
        { set_insert_all([j \in 1..GrowSize(PySet_MINSIZE, 4 * Len(entries)) |-> <<>>],
                         entries, 1, seed) :
            entries \in {set_list(table)} } : TRUE

\* a_set.add(key): the table grows when three fifths of it are in use.
set_add_entry(table, key, seed) ==
    IF \E j \in 1..Len(table) : table[j] = <<key>> THEN table
    ELSE CHOOSE filled \in
             { IF Len(set_list(added)) * 5 >= (Len(added) - 1) * 3
               THEN set_table_resize(added, seed)
               ELSE added :
                 added \in {set_insert_clean(table, key, seed)} } : TRUE

RECURSIVE set_update(_, _, _, _)
set_update(table, entries, i, seed) ==
    IF i > Len(entries) THEN table
    ELSE set_update(set_add_entry(table, entries[i], seed), entries, i + 1, seed)

\* set(entries): the entries added one by one to an empty table.
PySet_New(entries, seed) ==
    set_update([j \in 1..PySet_MINSIZE |-> <<>>], entries, 1, seed)

\* The entries of a list that are keys of the set probed.
Common(entries, probed) == SelectSeq(entries, LAMBDA key : key \in probed)

\* list(set(state0_0).intersection(set(state0_1))): the result is a new set,
\* filled while iterating over the argument set, or over the first set when
\* the argument set is the larger one, with the keys the other set holds.
intersecting_states(state0_0, state0_1, seed) ==
    CHOOSE found \in
        { set_list(PySet_New(common, seed)) :
            common \in
              { Common(set_list(PySet_New(q[1], seed)), q[2]) :
                  q \in { IF Cardinality(Elements(state0_1))
                               > Cardinality(Elements(state0_0))
                          THEN <<state0_0, Elements(state0_1)>>
                          ELSE <<state0_1, Elements(state0_0)>> } } } : TRUE

\* Only the pairs of neighbouring windows, (i, i + 1).
PairScan_adjacent(n, i, j) == [x \in 1..(n - 1) |-> <<x, x + 1>>]

\* The pairs (i, j), j > i, in scan order: i ascending, then j ascending.
RECURSIVE PairScan(_, _, _)
PairScan(n, i, j) ==
    IF i > n THEN <<>>
    ELSE IF j > n THEN PairScan(n, i + 1, i + 2)
    ELSE << <<i, j>> >> \o PairScan(n, i, j + 1)

get_denominator(numerator_states, seed) ==
    LET pairs == PairScan(Len(numerator_states), 1, 2)
        inter(p) ==
            intersecting_states(numerator_states[p[1]], numerator_states[p[2]],
                                seed)
    IN  SelectSeq([p \in 1..Len(pairs) |-> inter(pairs[p])],
                  LAMBDA s : Len(s) > 0)

\* The exact branch taken for order 0 only.
is_exact_zero_only(state, order) == order = 0

\* Whether get_state takes the exact branch.
is_exact(state, order) == order = 0 \/ order >= Len(state.items)

\* " ".join(map(get_state_string, states)).
state_strings(states) ==
    Join(<<" ">>, [i \in 1..Len(states) |-> get_state_string(states[i])])

\* Lines 578-597: the numerator's strings, over the denominator's when
\* there are denominator states.
state_string(numerator_states, denominator_states) ==
    IF Len(denominator_states) > 0
    THEN state_strings(numerator_states)
             \o <<"/", "(">> \o state_strings(denominator_states) \o <<")">>
    ELSE state_strings(numerator_states)

get_state(state, order, seed) ==
    IF validate_state(state, order) # "" THEN Raise(validate_state(state, order))
    ELSE IF is_exact(state, order)
    THEN Return(get_state_string(state.items))
    ELSE Return(state_string(
                    get_numerator(state.items, order),
                    get_denominator(get_numerator(state.items, order), seed)))

---------------------------------------------------------------------------
(* get_equation's nested helpers. *)

\* get_prefactor: the leading numeric characters and the text after them.
RECURSIVE NumericPrefixLen(_)
NumericPrefixLen(s) ==
    IF s # <<>> /\ IsNumeric(Head(s)) THEN 1 + NumericPrefixLen(Tail(s)) ELSE 0

get_prefactor(state_string1) ==
    LET j == NumericPrefixLen(state_string1)
    IN  <<SubSeq(state_string1, 1, j),
          IF j < Len(state_string1) THEN From(state_string1, j)
          ELSE state_string1>>

format_create_decay(key0, create_states0, decay_states0) ==
    LET string_key     == get_rate(key0)
        create_string0 == Join(<<"+">>, create_states0)
        decay_string0  == <<"-">> \o Join(<<"-">>, decay_states0)
    IN  <<"+">> \o string_key \o <<" ", "(">> \o create_string0
              \o decay_string0 \o <<")">>

\* format_create_decay_single without the single-state branch.
format_create_decay_single_paren(key0, states0, decay) ==
    LET string_key == get_rate(key0)
        sign       == IF decay THEN <<"-">> ELSE <<"+">>
    IN  sign \o string_key \o <<" ", "(">> \o Join(<<"+">>, states0) \o <<")">>

format_create_decay_single(key0, states0, decay) ==
    LET string_key == get_rate(key0)
        sign       == IF decay THEN <<"-">> ELSE <<"+">>
    IN  IF Len(states0) = 1
        THEN LET pf == get_prefactor(states0[1])
             IN  sign \o pf[1] \o <<" ">> \o string_key \o <<" ">> \o pf[2]
        ELSE sign \o string_key \o <<" ", "(">> \o Join(<<"+">>, states0)
                  \o <<")">>

\* format_equation_string deleting a leading '-' only.
format_equation_string_keep_plus(equation_string0) ==
    IF equation_string0 = <<>> THEN Raise("IndexError")
    ELSE LET stripped == Strip(equation_string0)
             first_character0 ==
                 IF equation_string0[1] = "-" THEN <<"-">> ELSE <<>>
         IN  IF stripped = <<>> THEN Raise("IndexError")
             ELSE LET delete_first0 == stripped[1] = "-"
                      body   == Strip(IF delete_first0 THEN From(stripped, 1)
                                      ELSE stripped)
                      plus   == Join(<<" ", "+", " ">>, Split(body, "+"))
                      minus  == Join(<<" ", "-", " ">>, Split(plus, "-"))
                  IN  Return(first_character0 \o minus)

\* format_equation_string: indexing [0] of an empty text raises IndexError.
format_equation_string(equation_string0) ==
    IF equation_string0 = <<>> THEN Raise("IndexError")
    ELSE LET stripped == Strip(equation_string0)
             first_character0 ==
                 IF equation_string0[1] = "-" THEN <<"-">> ELSE <<>>
         IN  IF stripped = <<>> THEN Raise("IndexError")
             ELSE LET delete_first0 == stripped[1] = "-" \/ stripped[1] = "+"
                      body   == Strip(IF delete_first0 THEN From(stripped, 1)
                                      ELSE stripped)
                      plus   == Join(<<" ", "+", " ">>, Split(body, "+"))
                      minus  == Join(<<" ", "-", " ">>, Split(plus, "-"))
                  IN  Return(first_character0 \o minus)

\* format_state_multiplicity printing the multiplicity when it is >= 1.
\* state0_0 += MathematicaFormatter.get_state(state0[0], order), line 223:
\* an exception of get_state passes through.
multiplied(state0_0, text) ==
    IF text.raised THEN text ELSE Return(state0_0 \o text.text)

format_state_multiplicity_ge(state0, order, seed) ==
    IF ~(Len(state0) = 2) THEN Raise("ValueError")
    ELSE multiplied(IF state0[2] >= 1 THEN Str(state0[2]) ELSE <<>>,
                    get_state(state0[1], order, seed))

format_state_multiplicity(state0, order, seed) ==
    IF ~(Len(state0) = 2) THEN Raise("ValueError")
    ELSE multiplied(IF state0[2] > 1 THEN Str(state0[2]) ELSE <<>>,
                    get_state(state0[1], order, seed))

\* get_equation's own validate_state: as get_state's, without the order.
validate_state0(state0) ==
    IF ~state0.tuple THEN "TypeError" ELSE BadEntryFrom(state0.items, 1)

KeySet(d) == {d.pairs[i].key : i \in 1..Len(d.pairs)}

\* validate_equation comparing the key sets with <= in place of ==.
validate_equation_subset(equation) ==
    IF ~equation.tuple THEN "TypeError"
    ELSE IF ~(Len(equation.items) = 3) THEN "TypeError"
    ELSE IF validate_state0(equation.items[1]) # ""
         THEN validate_state0(equation.items[1])
    ELSE IF ~(equation.items[2].dict /\ equation.items[3].dict) THEN "TypeError"
    ELSE IF ~(KeySet(equation.items[2]) \subseteq KeySet(equation.items[3]))
         THEN "ValueError"
    ELSE ""

\* The exception validate_equation raises, or "" when the record passes.
validate_equation(equation) ==
    IF ~equation.tuple THEN "TypeError"
    ELSE IF ~(Len(equation.items) = 3) THEN "TypeError"
    ELSE IF validate_state0(equation.items[1]) # ""
         THEN validate_state0(equation.items[1])
    ELSE IF ~(equation.items[2].dict /\ equation.items[3].dict) THEN "TypeError"
    ELSE IF ~(KeySet(equation.items[2]) = KeySet(equation.items[3]))
         THEN "ValueError"
    ELSE ""

\* d[key] for a key of the dict.
DictGet(d, key) ==
    d.pairs[CHOOSE i \in 1..Len(d.pairs) : d.pairs[i].key = key].val

\* tuple(key for key in d.keys()).
DictKeys(d) == [i \in 1..Len(d.pairs) |-> d.pairs[i].key]

\* [format_state_multiplicity(state) for state in states]: the first
\* exception raised ends the comprehension.
FormatAll(states, order, seed) ==
    [i \in 1..Len(states) |-> format_state_multiplicity(states[i], order, seed)]

RECURSIVE FirstRaised(_, _)
FirstRaised(results, i) ==
    IF i > Len(results) THEN ""
    ELSE IF results[i].raised THEN results[i].exc
    ELSE FirstRaised(results, i + 1)

Texts(results) == [i \in 1..Len(results) |-> results[i].text]

\* One iteration of "for key in keys": the exception it raises, or the
\* text it appends to equation_string.
\* Lines 313-335: the text one key adds, from the two comprehensions'
\* results.
key_string(key, create_res, decay_res) ==
    LET create_states == Texts(create_res)
        decay_states  == Texts(decay_res)
    IN  IF FirstRaised(create_res, 1) # "" THEN Raise(FirstRaised(create_res, 1))
        ELSE IF FirstRaised(decay_res, 1) # "" THEN Raise(FirstRaised(decay_res, 1))
        ELSE IF Len(decay_states) > 0 /\ Len(create_states) = 0
             THEN Return(format_create_decay_single(key, decay_states, TRUE))
        ELSE IF Len(decay_states) = 0 /\ Len(create_states) > 0
             THEN Return(format_create_decay_single(key, create_states, FALSE))
        ELSE IF Len(decay_states) > 0 /\ Len(create_states) > 0
             THEN Return(format_create_decay(key, create_states, decay_states))
        ELSE Return(<<>>)

key_clause(equation, key, order, seed) ==
    key_string(key,
               FormatAll(DictGet(equation.items[2], key), order, seed),
               FormatAll(DictGet(equation.items[3], key), order, seed))

\* The for loop from position i on: the exception it raises, or the
\* equation_string it leaves.
RECURSIVE equation_loop(_, _, _, _, _, _)
equation_loop(equation, keys0, i, acc, order, seed) ==
    IF i > Len(keys0) THEN Return(acc)
    ELSE LET clause == key_clause(equation, keys0[i], order, seed)
         IN  IF clause.raised THEN clause
             ELSE equation_loop(equation, keys0, i + 1, acc \o clause.text,
                                order, seed)

\* The text "D[" + get_state(equation[0]) + ", t] == ".
diff_state_of(equation, seed) ==
    <<"D", "[">> \o get_state(equation.items[1], 0, seed).text
                 \o <<",", " ", "t", "]", " ", "=", "=", " ">>

\* get_equation(equation, order) as one function.
get_equation(equation, order, seed) ==
    IF validate_equation(equation) # "" THEN Raise(validate_equation(equation))
    ELSE LET looped == equation_loop(equation, DictKeys(equation.items[2]), 1,
                                     <<>>, order, seed)
         IN  IF looped.raised THEN looped
             ELSE LET formatted == format_equation_string(looped.text)
                  IN  IF formatted.raised THEN formatted
                      ELSE Return(diff_state_of(equation, seed) \o formatted.text)

---------------------------------------------------------------------------
(* The inputs the calls are checked on. *)

Tuple(items) == [tuple |-> TRUE, items |-> items]

List(items) == [tuple |-> FALSE, items |-> items]

Labels == << <<"a">>, <<"b">>, <<"c">>, <<"d">> >>

\* The i-th entry of the chain a0, b1, c2, d3, a4, ...: pairwise distinct.
ChainEntry(i) == Tuple(<<Labels[((i - 1) % Len(Labels)) + 1], i - 1>>)

Chain(n) == [i \in 1..n |-> ChainEntry(i)]

\* States whose entries repeat.
RepeatStates ==
    UNION {[1..n -> {ChainEntry(1), ChainEntry(2)}] : n \in 1..MaxLen}

\* Entries that are no tuple of two elements.
BadEntries ==
    { List(<<Labels[1], 0>>), Tuple(<<Labels[1]>>), Tuple(<<Labels[1], 0, 1>>) }

MalformedStates ==
    { List(<<>>), List(Chain(2)) }
      \cup { Tuple(<<bad>>) : bad \in BadEntries }
      \cup { Tuple(<<ChainEntry(1), bad>>) : bad \in BadEntries }
      \cup { Tuple(<<bad, ChainEntry(2)>>) : bad \in BadEntries }

\* States with a '-' or a '+' inside a token: ((a, -1), (b, 1)) and (("c+", 2),).
NegState == Tuple(<<Tuple(<<Labels[1], 0 - 1>>), ChainEntry(2)>>)

PlusState == Tuple(<<Tuple(<< <<"c", "+">>, 2 >>)>>)

\* The chains: up to one entry more than there are labels.
ChainStates == { Tuple(Chain(n)) : n \in 0..(Len(Labels) + 1) }

StateInputs ==
    ChainStates
      \cup { Tuple(s) : s \in RepeatStates }
      \cup { NegState, PlusState }
      \cup MalformedStates

Orders == (0 - 1)..MaxOrder

\* Rate keys: "k1" and "k.2b".
k1 == <<"k", "1">>

k2 == <<"k", ".", "2", "b">>

\* A rate key with a '-' inside: "k-1".
k3 == <<"k", "-", "1">>

KeySeqs == { <<>>, <<k1>>, <<k2>>, <<k1, k2>>, <<k2, k1>> }

\* Weighted states the creation and decay lists are cut from.
WSeq ==
    << <<Tuple(Chain(2)), 1>>, <<Tuple(Chain(2)), 2>>,
       <<Tuple(Chain(3)), 3>>, <<Tuple(Chain(1)), 12>> >>

ListOf(n, j) == [t \in 1..n |-> WSeq[((j + t - 2) % Len(WSeq)) + 1]]

ListOptions == { ListOf(n, j) : n \in 0..MaxList, j \in 1..2 }

Reverse(s) == [i \in 1..Len(s) |-> s[Len(s) + 1 - i]]

IndexOf(s, x) == CHOOSE i \in 1..Len(s) : s[i] = x

Dict(pairs) == [dict |-> TRUE, pairs |-> pairs]

NotADict(pairs) == [dict |-> FALSE, pairs |-> pairs]

Equation(target, create, decay) == Tuple(<<target, create, decay>>)

\* A dict with the keys ks, in that order, whose i-th key holds vals[i].
DictOf(ks, vals) == Dict([i \in 1..Len(ks) |-> [key |-> ks[i], val |-> vals[i]]])

\* Well-formed records: the decay map holds the creation map's keys, in the
\* same or in the opposite insertion order.
WellFormedEquations ==
    { Equation(Tuple(Chain(2)),
               DictOf(ks, cl),
               DictOf(dks, [i \in 1..Len(ks) |-> dl[IndexOf(ks, dks[i])]])) :
        <<ks, dks, cl, dl>> \in
          UNION { {ks0} \X {ks0, Reverse(ks0)}
                        \X [1..Len(ks0) -> ListOptions]
                        \X [1..Len(ks0) -> ListOptions] : ks0 \in KeySeqs } }

\* Records on other target states, with one rate key.
OtherTargetEquations ==
    { Equation(t, DictOf(<<k1>>, <<c>>), DictOf(<<k1>>, <<d>>)) :
        <<t, c, d>> \in { Tuple(<<>>), Tuple(Chain(3)) }
                          \X ListOptions \X ListOptions }

\* Lists of weighted states with a signed token, and one without.
SignedLists ==
    { <<>>, << <<NegState, 1>> >>, << <<NegState, 2>> >>,
      << <<NegState, 1>>, <<PlusState, 1>> >>, << WSeq[2] >> }

\* Records whose states or rate keys hold a '-' or a '+'.
SignedTokenEquations ==
    { Equation(t, DictOf(ks, cl), DictOf(ks, dl)) :
        <<t, ks, cl, dl>> \in
          UNION { {t0} \X {ks0}
                       \X [1..Len(ks0) -> SignedLists]
                       \X [1..Len(ks0) -> SignedLists] :
                  <<t0, ks0>> \in { Tuple(Chain(2)), NegState }
                                    \X { <<k1>>, <<k3>>, <<k3, k1>> } } }

\* Lists of weighted states whose windows of two entries share both entries:
\* (a0, b1, a0), (b1, a0, b1) and (c2, d3, c2).
RepeatWeighted ==
    << <<Tuple(<<ChainEntry(1), ChainEntry(2), ChainEntry(1)>>), 1>>,
       <<Tuple(<<ChainEntry(2), ChainEntry(1), ChainEntry(2)>>), 1>>,
       <<Tuple(<<ChainEntry(3), ChainEntry(4), ChainEntry(3)>>), 2>> >>

RepeatLists ==
    { <<>>, <<RepeatWeighted[1]>>, <<RepeatWeighted[1], RepeatWeighted[2]>>,
      <<RepeatWeighted[3], RepeatWeighted[2]>> }

\* Records whose rendering depends on the hashes of the run.
RepeatEquations ==
    { Equation(Tuple(Chain(2)), DictOf(ks, cl), DictOf(ks, dl)) :
        <<ks, cl, dl>> \in
          UNION { {ks0} \X [1..Len(ks0) -> RepeatLists]
                        \X [1..Len(ks0) -> RepeatLists] :
                  ks0 \in { <<k1>>, <<k1, k2>> } } }

\* Records whose maps have different key sets; every key holds the same lists.
KeyMismatchEquations ==
    { Equation(Tuple(Chain(2)),
               DictOf(q[1], [i \in 1..Len(q[1]) |-> q[3]]),
               DictOf(q[2], [i \in 1..Len(q[2]) |-> q[4]])) :
        q \in { p \in KeySeqs \X KeySeqs \X ListOptions \X ListOptions :
                  {p[1][i] : i \in 1..Len(p[1])} # {p[2][i] : i \in 1..Len(p[2])} } }

\* Records with a malformed target state.
BadTargetEquations ==
    { Equation(t, DictOf(<<k1>>, <<c>>), DictOf(<<k1>>, <<d>>)) :
        <<t, c, d>> \in MalformedStates \X ListOptions \X ListOptions }

\* Weighted states that are no pair, or that carry a malformed state.
BadWeighted ==
    { <<Tuple(Chain(2))>>, <<Tuple(Chain(2)), 2, 3>> }
      \cup { <<m, 2>> : m \in MalformedStates }

BadLists ==
    UNION { { <<w>>, <<WSeq[2], w>>, <<w, WSeq[1]>> } : w \in BadWeighted }

\* Records with a malformed weighted state in a creation or a decay list.
BadListEquations ==
    { Equation(Tuple(Chain(2)), DictOf(<<k1>>, <<b>>), DictOf(<<k1>>, <<g>>)) :
        <<b, g>> \in BadLists \X ListOptions }
      \cup
    { Equation(Tuple(Chain(2)), DictOf(<<k1>>, <<g>>), DictOf(<<k1>>, <<b>>)) :
        <<b, g>> \in BadLists \X ListOptions }
      \cup
    { Equation(Tuple(Chain(2)),
               DictOf(<<k2, k1>>, <<g, g>>), DictOf(<<k1, k2>>, <<b, g>>)) :
        <<b, g>> \in BadLists \X ListOptions }

\* Records of the wrong shape: no tuple, not three entries, maps that are no dict.
BadShapeEquations ==
    LET t == Tuple(Chain(2))
        c == DictOf(<<k1>>, <<ListOf(1, 2)>>)
        d == DictOf(<<k1>>, <<ListOf(0, 1)>>)
    IN  { List(<<t, c, d>>), Tuple(<<t, c>>), Tuple(<<t, c, d, d>>),
          Equation(t, NotADict(c.pairs), d), Equation(t, c, NotADict(d.pairs)) }

EquationInputs ==
    WellFormedEquations \cup OtherTargetEquations \cup SignedTokenEquations
      \cup RepeatEquations
      \cup KeyMismatchEquations
      \cup BadTargetEquations \cup BadListEquations \cup BadShapeEquations

EqOrders == 0..MaxEqOrder

---------------------------------------------------------------------------
(* The interpreter runs a call is checked on: one for every list of
   intersections that some hashes of the entries give. The sets of a call are
   gone through as the interpreter builds them, and a run fixes about the
   hashes only what it meets on the way. *)

\* A probe <<i, d>> is the slot the i-th entry tries after d jumps. What a run
\* has fixed is a set k of pairs of probes <<x, y>>: the slot of x is the
\* slot of y or an earlier one.
Le(k, x, y) == x = y \/ <<x, y>> \in k

SameSlot(k, x, y) == Le(k, x, y) /\ Le(k, y, x)

Before(k, x, y) == Le(k, x, y) /\ ~Le(k, y, x)

Known(k, x, y) == Le(k, x, y) \/ Le(k, y, x)

Probes(k) == {p[1] : p \in k} \cup {p[2] : p \in k}

\* k with the slot of x at or before the slot of y, and all that follows.
Learn(k, x, y) ==
    LET all == Probes(k) \cup {x, y}
    IN  k \cup { p \in {u \in all : Le(k, u, x)} \X {v \in all : Le(k, y, v)} :
                   p[1] # p[2] }

\* k with x and y in the same slot, and all that follows.
LearnSame(k, x, y) ==
    LET all == Probes(k) \cup {x, y}
    IN  k \cup { p \in {u \in all : Le(k, u, x) \/ Le(k, u, y)}
                        \X {v \in all : Le(k, x, v) \/ Le(k, y, v)} :
                   p[1] # p[2] }

\* k with the slot of x before the slot of y, if cond holds and k does not
\* fix it already.
LearnIf(k, cond, x, y) == IF cond /\ ~Known(k, x, y) THEN Learn(k, x, y) ELSE k

\* Entry i added to a table, from its d-th jump on. used lists the probes that
\* hold the keys of the table, in slot order. The probe meets a slot in use
\* and the entry jumps, or it meets an unused slot before, between or after
\* the slots in use. Every result is a pair: what is fixed then, and the
\* probes that hold the keys then.
RECURSIVE Place(_, _, _, _)
Place(k, used, i, d) ==
    LET x == <<i, d>>
        n == Len(used)
    IN  IF \E j \in 1..n : SameSlot(k, x, used[j])
        THEN Place(k, used, i, d + 1)
        ELSE UNION { Place(same, used, i, d + 1) :
                       same \in { LearnSame(k, x, used[j]) :
                                    j \in { c \in 1..n :
                                              /\ ~Known(k, x, used[c])
                                              /\ \A b \in 0..(d - 1) :
                                                     ~SameSlot(k, <<i, b>>, used[c]) } } }
               \cup UNION { { << LearnIf(after, g < n, x, used[g + 1]),
                                 SubSeq(used, 1, g) \o <<x>> \o SubSeq(used, g + 1, n) >> :
                              after \in { LearnIf(k, g > 0, used[g], x) } } :
                            g \in { c \in 0..n : /\ c = 0 \/ ~Before(k, x, used[c])
                                                 /\ c = n \/ ~Before(k, used[c + 1], x) } }

\* set(entries) in every run of runs, a set of pairs as Place gives them.
RECURSIVE Placed(_, _, _)
Placed(runs, entries, j) ==
    IF j > Len(entries) THEN runs
    ELSE UNION { Placed(Place(r[1], r[2], i, 0), entries, j + 1) :
                   r \in runs, i \in {entries[j]} }

Keys(used) == [j \in 1..Len(used) |-> used[j][1]]

\* The entries of entries up to the last one that is in probed.
UpToLast(entries, probed) ==
    SubSeq(entries, 1,
           IF \E j \in 1..Len(entries) : entries[j] \in probed
           THEN CHOOSE j \in 1..Len(entries) :
                    /\ entries[j] \in probed
                    /\ \A c \in (j + 1)..Len(entries) : entries[c] \notin probed
           ELSE 0)

\* The set made of iterated, and then a new set made of its keys that are in
\* probed, after k: pairs of what is fixed then and of the new set's list.
\* The entries that the first set takes after the last one in probed do not
\* move the others and are left out.
MetIn(k, iterated, probed) ==
    UNION { { <<r[1], Keys(r[2])>> : r \in Placed({<<s[1], <<>>>>}, common, 1) } :
            <<s, common>> \in
                { <<t, Common(Keys(t[2]), probed)>> :
                    t \in Placed({<<k, <<>>>>}, UpToLast(iterated, probed), 1) } }

\* list(set(w0).intersection(set(w1))) after k.
Met(k, w0, w1) ==
    UNION { MetIn(k, q[1], q[2]) :
            q \in { IF Len(Distinct(w1, 1)) > Len(Distinct(w0, 1))
                    THEN <<Distinct(w0, 1), Elements(w1)>>
                    ELSE <<Distinct(w1, 1), Elements(w0)>> } }

\* The runs through the pairs of windows steps[j], steps[j + 1], ...: pairs of
\* what a run has fixed and of the lists it has made.
RECURSIVE Runs(_, _, _)
Runs(runs, steps, j) ==
    IF j > Len(steps) THEN runs
    ELSE UNION { Runs({ <<m[1], Append(r[2], m[2])>> :
                          m \in Met(r[1], w[1], w[2]) }, steps, j + 1) :
                 r \in runs, w \in {steps[j]} }

\* The slot of probe x when every probe takes the lowest slot that what is
\* fixed allows.
RECURSIVE Level(_, _)
Level(k, x) ==
    LET below == { Level(k, y) : y \in {z \in Probes(k) : Before(k, z, x)} }
    IN  IF below = {} THEN 0
        ELSE 1 + CHOOSE m \in below : \A b \in below : b <= m

\* What is fixed fits into the smallest table.
Fits(k) ==
    Cardinality(Probes(k)) <= PySet_MINSIZE
        \/ \A x \in Probes(k) : Level(k, x) < PySet_MINSIZE

\* A hash of entry i that sends its probes to their slots: the first digit is
\* the first slot, and the digit of jump d takes slot s to 5 s + 1 + digit.
HashDigits(k, i) ==
    [c \in 1..Cardinality({x \in Probes(k) : x[1] = i}) |->
        IF c = 1 THEN Level(k, <<i, 0>>)
        ELSE (Level(k, <<i, c - 1>>) + 6 * PySet_MINSIZE
                - (5 * Level(k, <<i, c - 2>>) + 1)) % PySet_MINSIZE]

\* The pairs of windows that the get_denominator calls intersect, one after
\* the other, every entry written as its position in universe; calls holds
\* the numerator_states of every call.
Steps(calls, universe) ==
    Join(<<>>, [c \in 1..Len(calls) |->
                   [p \in 1..Len(PairScan(Len(calls[c]), 1, 2)) |->
                       [q \in 1..2 |->
                           [j \in 1..Len(calls[c][PairScan(Len(calls[c]), 1, 2)[p][q]]) |->
                               IndexOf(universe,
                                       calls[c][PairScan(Len(calls[c]), 1, 2)[p][q]][j])]]]])

\* One seed for every list of intersections that the runs make.
RunSeeds(runs, universe) ==
    { [key \in Elements(universe) |-> HashDigits(r[1], IndexOf(universe, key))] :
        r \in { CHOOSE r \in runs : r[2] = lists : lists \in {q[2] : q \in runs} } }

\* The seeds of the runs through calls: one for every outcome.
HashSeeds(calls) ==
    UNION { RunSeeds({ r \in Runs({<<{}, <<>>>>}, q[2], 1) : Fits(r[1]) }, q[1]) :
            q \in { <<universe, Steps(c, universe)>> :
                      c \in {calls},
                      universe \in { Distinct(Join(<<>>, Join(<<>>, calls)), 1) } } }

\* The numerator_states of the get_denominator call that get_state makes.
StateCalls(state, order) ==
    IF validate_state(state, order) = "" /\ ~is_exact(state, order)
    THEN << get_numerator(state.items, order) >>
    ELSE <<>>

\* Whether format_state_multiplicity raises on a weighted state: line 216,
\* or the validate_state of its get_state call.
Raises(state0, order) ==
    Len(state0) # 2 \/ validate_state(state0[1], order) # ""

\* The position of the first weighted state of a list that raises, or one
\* past the list: the comprehension of line 308 / 311 ends there.
FirstRaising(states, order) ==
    IF \E j \in 1..Len(states) : Raises(states[j], order)
    THEN CHOOSE j \in 1..Len(states) :
             /\ Raises(states[j], order)
             /\ \A b \in 1..(j - 1) : ~Raises(states[b], order)
    ELSE Len(states) + 1

\* The get_denominator calls of one comprehension, those before the first
\* weighted state that raises.
WeightedCalls(states, order) ==
    Join(<<>>, [j \in 1..(FirstRaising(states, order) - 1) |->
                   StateCalls(states[j][1], order)])

\* The calls of the for loop from the j-th key on: an exception in a
\* comprehension ends the loop.
RECURSIVE KeyCalls(_, _, _)
KeyCalls(equation, j, order) ==
    IF j > Len(equation.items[2].pairs) THEN <<>>
    ELSE WeightedCalls(equation.items[2].pairs[j].val, order)
         \o IF FirstRaising(equation.items[2].pairs[j].val, order)
                  <= Len(equation.items[2].pairs[j].val)
            THEN <<>>
            ELSE WeightedCalls(DictGet(equation.items[3],
                                       equation.items[2].pairs[j].key), order)
                 \o IF FirstRaising(DictGet(equation.items[3],
                                            equation.items[2].pairs[j].key), order)
                          <= Len(DictGet(equation.items[3],
                                         equation.items[2].pairs[j].key))
                    THEN <<>>
                    ELSE KeyCalls(equation, j + 1, order)

\* The same for the get_state calls of get_equation, key after key.
EquationCalls(equation, order) ==
    IF validate_equation(equation) # "" THEN <<>>
    ELSE KeyCalls(equation, 1, order)

\* Placeholders for the argument a call does not take.
NoState == Tuple(<<>>)

NoEquation == Tuple(<<>>)

---------------------------------------------------------------------------
(* The state machine: one call of get_state or of get_equation. *)

VARIABLES
    call,                \* "get_state" or "get_equation"
    state,               \* get_state's state argument
    equation,            \* get_equation's equation argument
    order,               \* the order argument
    seed,                \* the hashes of the entries in this interpreter run
    pc,                  \* "start", "loop" (get_equation's for loop), "done"
    numerator_states,    \* get_state's local, before it is rendered
    denominator_states,  \* get_state's local, before it is rendered
    keys,                \* get_equation's local
    diff_state,          \* get_equation's local
    equation_string,     \* get_equation's local
    ki,                  \* position of the for loop in keys
    result               \* what the call returned or raised

vars == <<call, state, equation, order, seed, pc, numerator_states,
          denominator_states, keys, diff_state, equation_string, ki, result>>

inputs == <<call, state, equation, order, seed>>

Init ==
    /\ \/ /\ call = "get_state"
          /\ state \in StateInputs
          /\ equation = NoEquation
          /\ order \in Orders
          /\ seed \in HashSeeds(StateCalls(state, order))
       \/ /\ call = "get_equation"
          /\ state = NoState
          /\ equation \in EquationInputs
          /\ order \in EqOrders
          /\ seed \in HashSeeds(EquationCalls(equation, order))
       \/ /\ call = "get_equation"
          /\ state = NoState
          /\ equation \in OtherTargetEquations
          /\ order = 0 - 1
          /\ seed = <<>>
    /\ pc = "start"
    /\ numerator_states = <<>>
    /\ denominator_states = <<>>
    /\ keys = <<>>
    /\ diff_state = <<>>
    /\ equation_string = <<>>
    /\ ki = 1
    /\ result = NoResult

\* get_state(state, order), lines 563-597.
GetState ==
    /\ pc = "start"
    /\ call = "get_state"
    /\ LET reduced == validate_state(state, order) = "" /\ ~is_exact(state, order)
           num == get_numerator(state.items, order)
       IN  /\ numerator_states' = IF reduced THEN num ELSE <<>>
           /\ denominator_states' =
                  IF reduced THEN get_denominator(num, seed) ELSE <<>>
    /\ result' = get_state(state, order, seed)
    /\ pc' = "done"
    /\ UNCHANGED <<inputs, keys, diff_state, equation_string, ki>>

\* get_equation taking the loop's keys from the decay map.
GetEquationStart_decay_keys ==
    /\ pc = "start"
    /\ call = "get_equation"
    /\ IF validate_equation(equation) # ""
       THEN /\ result' = Raise(validate_equation(equation))
            /\ pc' = "done"
            /\ UNCHANGED <<keys, diff_state>>
       ELSE /\ keys' = DictKeys(equation.items[3])
            /\ diff_state' = diff_state_of(equation, seed)
            /\ pc' = "loop"
            /\ UNCHANGED result
    /\ UNCHANGED <<inputs, numerator_states, denominator_states,
                   equation_string, ki>>

\* get_equation rendering the target state with the requested order.
GetEquationStart_target_order ==
    /\ pc = "start"
    /\ call = "get_equation"
    /\ IF validate_equation(equation) # ""
       THEN /\ result' = Raise(validate_equation(equation))
            /\ pc' = "done"
            /\ UNCHANGED <<keys, diff_state>>
       ELSE /\ keys' = DictKeys(equation.items[2])
            /\ diff_state' = <<"D", "[">>
                                \o get_state(equation.items[1], order, seed).text
                                \o <<",", " ", "t", "]", " ", "=", "=", " ">>
            /\ pc' = "loop"
            /\ UNCHANGED result
    /\ UNCHANGED <<inputs, numerator_states, denominator_states,
                   equation_string, ki>>

\* get_equation, lines 293-303: validation, keys, diff_state.
GetEquationStart ==
    /\ pc = "start"
    /\ call = "get_equation"
    /\ IF validate_equation(equation) # ""
       THEN /\ result' = Raise(validate_equation(equation))
            /\ pc' = "done"
            /\ UNCHANGED <<keys, diff_state>>
       ELSE /\ keys' = DictKeys(equation.items[2])
            /\ diff_state' = diff_state_of(equation, seed)
            /\ pc' = "loop"
            /\ UNCHANGED result
    /\ UNCHANGED <<inputs, numerator_states, denominator_states,
                   equation_string, ki>>

\* get_equation, lines 306-335: one iteration of the for loop.
GetEquationKey ==
    /\ pc = "loop"
    /\ ki <= Len(keys)
    /\ \E clause \in {key_clause(equation, keys[ki], order, seed)} :
           IF clause.raised
           THEN /\ result' = clause
                /\ pc' = "done"
                /\ UNCHANGED <<equation_string, ki>>
           ELSE /\ equation_string' = equation_string \o clause.text
                /\ ki' = ki + 1
                /\ UNCHANGED <<result, pc>>
    /\ UNCHANGED <<inputs, numerator_states, denominator_states, keys, diff_state>>

\* get_equation, lines 337-343: normalisation and return.
GetEquationFinish ==
    /\ pc = "loop"
    /\ ki > Len(keys)
    /\ LET formatted == format_equation_string(equation_string)
       IN  result' = IF formatted.raised THEN formatted
                     ELSE Return(diff_state \o formatted.text)
    /\ pc' = "done"
    /\ UNCHANGED <<inputs, numerator_states, denominator_states, keys,
                   diff_state, equation_string, ki>>

Next == GetState \/ GetEquationStart \/ GetEquationKey \/ GetEquationFinish

Spec == Init /\ [][Next]_vars

---------------------------------------------------------------------------
(* Vocabulary of the properties. *)

\* The step actions and the one-function form of get_equation agree.
StepsAgree ==
    (call = "get_equation" /\ pc = "done")
        => result = get_equation(equation, order, seed)

IsPrefix(p, s) == Len(p) <= Len(s) /\ SubSeq(s, 1, Len(p)) = p

WellFormedState(s) ==
    /\ s.tuple
    /\ \A j \in 1..Len(s.items) : s.items[j].tuple /\ Len(s.items[j].items) = 2

WellFormedWeighted(w) == Len(w) = 2 /\ WellFormedState(w[1])

\* A 3-tuple of a state and two dicts.
RecordShaped(e) ==
    /\ e.tuple
    /\ Len(e.items) = 3
    /\ e.items[2].dict
    /\ e.items[3].dict

\* Every weighted state of every list of dict d is well formed.
ListsWellFormed(d) ==
    \A i \in 1..Len(d.pairs) :
        \A j \in 1..Len(d.pairs[i].val) : WellFormedWeighted(d.pairs[i].val[j])

ValidRecord(e) ==
    /\ RecordShaped(e)
    /\ WellFormedState(e.items[1])
    /\ KeySet(e.items[2]) = KeySet(e.items[3])
    /\ ListsWellFormed(e.items[2])
    /\ ListsWellFormed(e.items[3])

Returned == pc = "done" /\ ~result.raised

\* The right-hand side of a returned equation: the text after diff_state.
RightHandSide == From(result.text, Len(diff_state))

\* A text with every '+' and every '-' of it set between two spaces.
Spaced(text) ==
    Join(<<" ", "-", " ">>, Split(Join(<<" ", "+", " ">>, Split(text, "+")), "-"))

Creation(key) == DictGet(equation.items[2], key)

Decay(key) == DictGet(equation.items[3], key)

\* The state ((a, 0), (b, 1)).
StateA0B1 == Tuple(<< Tuple(<< <<"a">>, 0 >>), Tuple(<< <<"b">>, 1 >>) >>)

\* {"k1": v}.
DictK1(v) == Dict(<< [key |-> <<"k", "1">>, val |-> v] >>)

---------------------------------------------------------------------------
(* C1 *)

KeySetsDiffer(e) ==
    RecordShaped(e) /\ KeySet(e.items[2]) # KeySet(e.items[3])

\* C1: get_equation on a 3-tuple record whose creation map and decay map have
\* different key sets raises and returns no text, whether or not the lists
\* of the mismatched rate are empty, and it raises in validation: the call
\* is over with keys, diff_state and equation_string never set and the for
\* loop never entered.
C1_KeyMismatchRaises ==
    (call = "get_equation" /\ KeySetsDiffer(equation) /\ pc # "start")
        => /\ pc = "done"
           /\ result.raised
           /\ result.text = <<>>
           /\ keys = <<>>
           /\ diff_state = <<>>
           /\ equation_string = <<>>
           /\ ki = 1

\* A call that raised on a record whose only mismatched rate has an empty list.
C1_Witness ==
    /\ call = "get_equation"
    /\ pc = "done"
    /\ equation = Equation(StateA0B1, DictK1(<<>>), Dict(<<>>))
    /\ result = Raise("ValueError")

\* A call that raised on a record whose mismatched rate has a non-empty list.
C1_WitnessNonEmpty ==
    /\ call = "get_equation"
    /\ pc = "done"
    /\ KeySetsDiffer(equation)
    /\ \E i \in 1..Len(equation.items[2].pairs) :
          /\ equation.items[2].pairs[i].key \notin KeySet(equation.items[3])
          /\ equation.items[2].pairs[i].val # <<>>
    /\ result.raised

---------------------------------------------------------------------------
(* C2 *)

IsSign(c) == c = "+" \/ c = "-"

OneSpaceEachSide(s, i) ==
    /\ i > 2
    /\ i + 2 <= Len(s)
    /\ s[i - 1] = " " /\ s[i - 2] # " "
    /\ s[i + 1] = " " /\ s[i + 2] # " "

\* C2: in every text get_equation returns for a valid record, every '+' and
\* '-' of the right-hand side other than a leading sign has exactly one space
\* on each side.
C2_SignsSingleSpaced ==
    (call = "get_equation" /\ Returned /\ ValidRecord(equation))
        => \A i \in 2..Len(RightHandSide) :
              IsSign(RightHandSide[i]) => OneSpaceEachSide(RightHandSide, i)

---------------------------------------------------------------------------
(* C3 *)

C3_Input ==
    /\ call = "get_equation"
    /\ order = 0
    /\ equation = Equation(StateA0B1, DictK1(<< <<StateA0B1, 2>> >>), DictK1(<<>>))

\* "D[Pa0b1[t], t] == "
TextDiffA0B1 == <<"D", "[", "P", "a", "0", "b", "1", "[", "t", "]", ",", " ", "t", "]", " ", "=", "=", " ">>

\* C3 as stated: the example returns "D[Pa0b1[t], t] == + 2 K1 Pa0b1[t]".
C3_Original ==
    (C3_Input /\ pc = "done")
        => result = Return(TextDiffA0B1 \o <<"+", " ", "2", " ", "K", "1", " ", "P", "a", "0", "b", "1", "[", "t", "]">>)

\* A create-only first clause of one weighted state with multiplicity > 1.
FirstCreateOnlySingle ==
    /\ ValidRecord(equation)
    /\ Len(keys) > 0
    /\ Decay(keys[1]) = <<>>
    /\ Len(Creation(keys[1])) = 1
    /\ Creation(keys[1])[1][2] > 1

\* C3, amended: the example returns "D[Pa0b1[t], t] == 2 K1 Pa0b1[t]"; a
\* create-only first clause of one weighted state with multiplicity > 1 loses
\* its '+' and is output as the multiplicity, a space, the rate, a space and
\* the state, a '+' or '-' inside the rate or the state being set between
\* spaces like a joining sign.
C3_CreateOnlyFirstClause ==
    /\ (C3_Input /\ pc = "done")
          => result = Return(TextDiffA0B1 \o <<"2", " ", "K", "1", " ", "P", "a", "0", "b", "1", "[", "t", "]">>)
    /\ (call = "get_equation" /\ Returned /\ FirstCreateOnlySingle)
          => IsPrefix(Spaced(Str(Creation(keys[1])[1][2]) \o <<" ">>
                               \o get_rate(keys[1]) \o <<" ">>
                               \o get_state(Creation(keys[1])[1][1], order, seed).text),
                      RightHandSide)

C3_Witness == C3_Input /\ Returned /\ FirstCreateOnlySingle

---------------------------------------------------------------------------
(* C4 *)

C4_Input ==
    /\ call = "get_equation"
    /\ order = 0
    /\ equation = Equation(StateA0B1, DictK1(<<>>), DictK1(<< <<StateA0B1, 1>> >>))

\* C4 as stated: the example returns "D[Pa0b1[t], t] == - K1 Pa0b1[t]".
C4_Original ==
    (C4_Input /\ pc = "done")
        => result = Return(TextDiffA0B1 \o <<"-", " ", "K", "1", " ", "P", "a", "0", "b", "1", "[", "t", "]">>)

\* A decay-only first clause of one weighted state with multiplicity 1.
FirstDecayOnlySingleOne ==
    /\ ValidRecord(equation)
    /\ Len(keys) > 0
    /\ Creation(keys[1]) = <<>>
    /\ Len(Decay(keys[1])) = 1
    /\ Decay(keys[1])[1][2] = 1

\* C4, amended: the example returns "D[Pa0b1[t], t] == -K1 Pa0b1[t]"; a
\* decay-only first clause of one weighted state with multiplicity 1 is output
\* as '-' directly followed by the rate, one space and the state, and the
\* multiplicity 1 is not printed; a '+' or '-' inside the rate or the state is
\* set between spaces like a joining sign.
C4_DecayOnlyFirstClause ==
    /\ (C4_Input /\ pc = "done")
          => result = Return(TextDiffA0B1 \o <<"-", "K", "1", " ", "P", "a", "0", "b", "1", "[", "t", "]">>)
    /\ (call = "get_equation" /\ Returned /\ FirstDecayOnlySingleOne)
          => IsPrefix(<<"-">> \o Spaced(get_rate(keys[1]) \o <<" ">>
                               \o get_state(Decay(keys[1])[1][1], order, seed).text),
                      RightHandSide)

C4_Witness == C4_Input /\ Returned /\ FirstDecayOnlySingleOne

---------------------------------------------------------------------------
(* C5 *)

AllListsEmpty(e) ==
    \A i \in 1..Len(e.items[2].pairs) :
        /\ e.items[2].pairs[i].val = <<>>
        /\ DictGet(e.items[3], e.items[2].pairs[i].key) = <<>>

\* The record without the rate keys whose two lists are empty.
DropEmptyKeys(e) ==
    LET empty(k) == DictGet(e.items[2], k) = <<>> /\ DictGet(e.items[3], k) = <<>>
    IN  Equation(e.items[1],
                 Dict(SelectSeq(e.items[2].pairs, LAMBDA q : ~empty(q.key))),
                 Dict(SelectSeq(e.items[3].pairs, LAMBDA q : ~empty(q.key))))

\* C5: a rate key whose creation and decay lists are both empty contributes
\* nothing and causes no failure: a valid record whose rate keys all have
\* empty lists (or that has no rate key) returns "D[" + target + ", t] == "
\* with an empty right-hand side, and a valid record gives the result of the
\* same record without its empty rate keys.
C5_EmptyKeysContributeNothing ==
    (call = "get_equation" /\ pc = "done" /\ ValidRecord(equation) /\ order >= 0)
        => /\ AllListsEmpty(equation)
                => result = Return(<<"D", "[">>
                                     \o get_state(equation.items[1], 0, seed).text
                                     \o <<",", " ", "t", "]", " ", "=", "=", " ">>)
           /\ result = get_equation(DropEmptyKeys(equation), order, seed)

---------------------------------------------------------------------------
(* C6 *)

\* A finished get_state call that took the mean-field branch.
Reduced ==
    /\ call = "get_state"
    /\ pc = "done"
    /\ WellFormedState(state)
    /\ 0 < order
    /\ order < Len(state.items)

Choose2(m) == (m * (m - 1)) \div 2

WindowsInOrder ==
    /\ Len(numerator_states) = Len(state.items) - order + 1
    /\ \A i \in 1..Len(numerator_states) :
          /\ numerator_states[i] = SubSeq(state.items, i, i + order - 1)
          /\ Len(numerator_states[i]) = order

\* C6: for a state of length n and an order k with 0 < k < n, the numerator
\* has exactly n - k + 1 sub-states, the i-th being the window of length k
\* that starts at entry i; the denominator has at most C(n-k+1, 2) sub-states
\* and none of them is empty.
C6_MeanFieldBounds ==
    Reduced
        => /\ WindowsInOrder
           /\ Len(denominator_states) <= Choose2(Len(state.items) - order + 1)
           /\ \A d \in 1..Len(denominator_states) :
                 Len(denominator_states[d]) > 0

\* Four entries at order 2: three windows, two of the three pairs intersect.
C6_Witness ==
    /\ Reduced
    /\ Len(state.items) = 4
    /\ order = 2
    /\ Len(numerator_states) = 3
    /\ Len(denominator_states) = 2

---------------------------------------------------------------------------
(* C7 *)

RECURSIVE EntriesText(_, _)
EntriesText(items, j) ==
    IF j > Len(items) THEN <<>>
    ELSE items[j].items[1] \o Str(items[j].items[2]) \o EntriesText(items, j + 1)

HasChar(s, c) == \E i \in 1..Len(s) : s[i] = c

HasPair(s, c1, c2) == \E i \in 1..(Len(s) - 1) : s[i] = c1 /\ s[i + 1] = c2

\* A finished get_state call with order 0 or order >= len(state).
Unreduced ==
    /\ call = "get_state"
    /\ pc = "done"
    /\ WellFormedState(state)
    /\ (order = 0 \/ order >= Len(state.items))

\* C7: get_state with order 0 or order >= len(state) returns "P", then label
\* followed by index for each entry in the given order, then "[t]"; the text
\* has no space and no "/(" and is the text of order 0.
C7_ExactRendering ==
    Unreduced
        => /\ result = Return(<<"P">> \o EntriesText(state.items, 1)
                                      \o <<"[", "t", "]">>)
           /\ ~HasChar(result.text, " ")
           /\ ~HasPair(result.text, "/", "(")
           /\ result = get_state(state, 0, seed)
           /\ numerator_states = <<>>
           /\ denominator_states = <<>>

\* An order above the length of a state of three entries.
C7_Witness ==
    /\ Unreduced
    /\ Len(state.items) = 3
    /\ order > 3
    /\ ~result.raised

---------------------------------------------------------------------------
(* C8 *)

Rendered(s) == get_state(s, order, seed).text

MultiplicityPrefix(m) == IF m > 1 THEN Str(m) ELSE <<>>

\* sign, m, rate, state.
SingleClause(sign, key, w) ==
    <<sign>> \o Str(w[2]) \o <<" ">> \o get_rate(key) \o <<" ">> \o Rendered(w[1])

\* sign, rate, then the parenthesised sum of the prefixed states.
MultiClause(sign, key, ws) ==
    <<sign>> \o get_rate(key) \o <<" ", "(">>
             \o Join(<<"+">>, [i \in 1..Len(ws) |->
                                  MultiplicityPrefix(ws[i][2]) \o Rendered(ws[i][1])])
             \o <<")">>

SingleAbove1(ws) == Len(ws) = 1 /\ ws[1][2] > 1

\* The clause of a rate key with one empty list.
ExpectedClause(key) ==
    LET c == Creation(key)
        d == Decay(key)
    IN  IF d = <<>>
        THEN IF SingleAbove1(c) THEN SingleClause("+", key, c[1])
             ELSE MultiClause("+", key, c)
        ELSE IF SingleAbove1(d) THEN SingleClause("-", key, d[1])
             ELSE MultiClause("-", key, d)

\* The cases C8 speaks of: one list empty, the other with one weighted state
\* of multiplicity > 1 or with two or more weighted states.
AsymmetryCase(key) ==
    \/ Decay(key) = <<>> /\ (SingleAbove1(Creation(key)) \/ Len(Creation(key)) >= 2)
    \/ Creation(key) = <<>> /\ (SingleAbove1(Decay(key)) \/ Len(Decay(key)) >= 2)

\* C8: for a rate with one empty list, in a call on a valid record with an
\* order >= 0, an iteration of the for loop appends,
\* when the other list has one weighted state of multiplicity m > 1, the
\* clause sign, m, rate, state (m before the rate, nothing parenthesised by
\* the clause), and when it has two or more weighted states, the clause sign,
\* rate and a parenthesised '+'-joined sum in which each state carries its own
\* multiplicity prefix.
C8_SingleVsMulti ==
    [][ (/\ pc = "loop"
         /\ ki <= Len(keys)
         /\ ValidRecord(equation)
         /\ order >= 0
         /\ AsymmetryCase(keys[ki]))
          => /\ pc' = "loop"
             /\ ki' = ki + 1
             /\ equation_string' = equation_string \o ExpectedClause(keys[ki])
             /\ (order = 0 /\ (SingleAbove1(Creation(keys[ki]))
                                 \/ SingleAbove1(Decay(keys[ki]))))
                   => ~HasChar(ExpectedClause(keys[ki]), "(") ]_vars

\* The loop has appended a single-state clause and then a multi-state clause.
C8_Witness ==
    /\ call = "get_equation"
    /\ pc = "loop"
    /\ ki = 3
    /\ ValidRecord(equation)
    /\ Decay(keys[1]) = <<>> /\ SingleAbove1(Creation(keys[1]))
    /\ Creation(keys[2]) = <<>> /\ Len(Decay(keys[2])) = 2
    /\ equation_string = ExpectedClause(keys[1]) \o ExpectedClause(keys[2])

---------------------------------------------------------------------------
(* C9 *)

\* The pairs (i, j) of 1..m with j > i, i ascending and then j ascending.
ScanPairs(m) ==
    SelectSeq([x \in 1..(m * m) |-> <<((x - 1) \div m) + 1, ((x - 1) % m) + 1>>],
              LAMBDA q : q[2] > q[1])

\* The non-empty intersections of the windows, as sets, in scan order.
ScanIntersections ==
    SelectSeq([x \in 1..Len(ScanPairs(Len(numerator_states))) |->
                  Elements(numerator_states[ScanPairs(Len(numerator_states))[x][1]])
                    \cap
                  Elements(numerator_states[ScanPairs(Len(numerator_states))[x][2]])],
              LAMBDA t : t # {})

\* a is b with some entries left out: a keeps b's relative order.
RECURSIVE IsSubsequence(_, _)
IsSubsequence(a, b) ==
    IF a = <<>> THEN TRUE
    ELSE IF b = <<>> THEN FALSE
    ELSE IF Head(a) = Head(b) THEN IsSubsequence(Tail(a), Tail(b))
    ELSE IsSubsequence(a, Tail(b))

\* C9: get_state is deterministic and order-stable for 0 < k < n: the text
\* does not depend on the interpreter run; the numerator sub-states are the
\* windows left to right; the denominator sub-states follow the (i, j) scan
\* order; and inside every denominator sub-state the entries keep the relative
\* order they have in the given state.
C9_OrderStable ==
    Reduced
        => /\ \A s \in HashSeeds(StateCalls(state, order)) : get_state(state, order, s) = result
           /\ WindowsInOrder
           /\ Len(denominator_states) = Len(ScanIntersections)
           /\ \A d \in 1..Len(denominator_states) :
                 /\ Elements(denominator_states[d]) = ScanIntersections[d]
                 /\ IsSubsequence(denominator_states[d], state.items)

---------------------------------------------------------------------------
(* C10 *)

\* Some weighted state of dict d is no pair or carries a malformed state.
HasBadWeighted(d) == ~ListsWellFormed(d)

\* C10: get_state raises and returns no text when order < 0, when the state
\* is no tuple, or when an entry is no tuple of two elements; get_equation
\* raises and returns no text when its target state is malformed in one of
\* these ways or when a weighted state of a creation or decay list is no pair
\* or carries a malformed state.
C10_MalformedRaises ==
    /\ (call = "get_state" /\ pc = "done"
          /\ (order < 0 \/ ~WellFormedState(state)))
          => result.raised /\ result.text = <<>>
    /\ (call = "get_equation" /\ pc = "done" /\ RecordShaped(equation)
          /\ (\/ ~WellFormedState(equation.items[1])
              \/ HasBadWeighted(equation.items[2])
              \/ HasBadWeighted(equation.items[3])))
          => result.raised /\ result.text = <<>>

\* get_equation raised in the loop on a weighted state of three elements in the
\* decay list.
C10_Witness ==
    /\ call = "get_equation"
    /\ pc = "done"
    /\ RecordShaped(equation)
    /\ WellFormedState(equation.items[1])
    /\ KeySet(equation.items[2]) = KeySet(equation.items[3])
    /\ ListsWellFormed(equation.items[2])
    /\ \E i \in 1..Len(equation.items[3].pairs) :
          \E j \in 1..Len(equation.items[3].pairs[i].val) :
              Len(equation.items[3].pairs[i].val[j]) = 3
    /\ keys # <<>>
    /\ result = Raise("ValueError")


---------------------------------------------------------------------------
(* C11 *)

\* The states of a list, each behind its own multiplicity prefix.
PrefixedStates(ws) ==
    [i \in 1..Len(ws) |-> MultiplicityPrefix(ws[i][2]) \o Rendered(ws[i][1])]

\* '+', rate, then one parenthesis: the creation states joined by '+' and
\* every decay state behind a '-'.
BothClause(key) ==
    <<"+">> \o get_rate(key) \o <<" ", "(">>
            \o Join(<<"+">>, PrefixedStates(Creation(key)))
            \o <<"-">> \o Join(<<"-">>, PrefixedStates(Decay(key)))
            \o <<")">>

BothPresent(key) == Creation(key) # <<>> /\ Decay(key) # <<>>

HasClause(key) == Creation(key) # <<>> \/ Decay(key) # <<>>

\* The keys that contribute a clause, in loop order.
ClauseKeys == SelectSeq(keys, HasClause)

\* An iteration of the for loop on a rate with both lists non-empty appends
\* the clause '+', rate, parenthesis.
BothClauseAppended ==
    (/\ pc = "loop"
     /\ ki <= Len(keys)
     /\ ValidRecord(equation)
     /\ order >= 0
     /\ BothPresent(keys[ki]))
      => /\ pc' = "loop"
         /\ ki' = ki + 1
         /\ equation_string' = equation_string \o BothClause(keys[ki])

\* When the first clause is one of a rate with both lists non-empty, the
\* returned right-hand side starts with the rate token.
FirstBothClauseUnsigned ==
    (/\ pc = "loop"
     /\ ki > Len(keys)
     /\ ValidRecord(equation)
     /\ order >= 0
     /\ ClauseKeys # <<>>
     /\ BothPresent(ClauseKeys[1]))
      => /\ ~result'.raised
         /\ IsPrefix(get_rate(ClauseKeys[1]) \o <<" ", "(">>,
                     From(result'.text, Len(diff_state)))

\* C11: for a rate key with non-empty creation and decay lists get_equation
\* emits one clause with one shared rate factor: '+', the rate, and a
\* parenthesis holding the creation states joined by '+' and then every decay
\* state behind a '-', each state behind its own multiplicity prefix (if > 1)
\* also when a list has one state; when it is the first clause the right-hand
\* side starts with the rate token and no sign.
C11_BothPresentClause ==
    [][BothClauseAppended /\ FirstBothClauseUnsigned]_vars

\* The part of C11 on the clause the loop appends.
C11_ClauseForm == [][BothClauseAppended]_vars

\* The loop has appended the clause of a rate whose two lists hold one
\* weighted state each.
C11_ClauseAppended ==
    /\ call = "get_equation"
    /\ pc = "loop"
    /\ ki = 2
    /\ ValidRecord(equation)
    /\ Len(Creation(keys[1])) = 1
    /\ Len(Decay(keys[1])) = 1
    /\ Decay(keys[1])[1][2] > 1
    /\ equation_string = BothClause(keys[1])


---------------------------------------------------------------------------
(* C12 *)

\* The clause of a rate key, whatever its lists hold.
ClauseOf(key) ==
    LET c == Creation(key)
        d == Decay(key)
        one(sign, ws) ==
            IF Len(ws) = 1
            THEN <<sign>> \o MultiplicityPrefix(ws[1][2]) \o <<" ">>
                          \o get_rate(key) \o <<" ">> \o Rendered(ws[1][1])
            ELSE MultiClause(sign, key, ws)
    IN  IF c = <<>> /\ d = <<>> THEN <<>>
        ELSE IF d = <<>> THEN one("+", c)
        ELSE IF c = <<>> THEN one("-", d)
        ELSE BothClause(key)

\* The keys of the creation map, in insertion order.
CreationKeys == [i \in 1..Len(equation.items[2].pairs) |-> equation.items[2].pairs[i].key]

DecayKeys == [i \in 1..Len(equation.items[3].pairs) |-> equation.items[3].pairs[i].key]

\* The clauses of the first n keys of the creation map, one after the other.
ClausesUpTo(n) == Join(<<>>, [i \in 1..n |-> ClauseOf(CreationKeys[i])])

Unspaced(text) == SelectSeq(text, LAMBDA c : c # " ")

DropPlus(text) == IF text # <<>> /\ text[1] = "+" THEN Tail(text) ELSE text

\* The record with the keys of its decay map inserted in the opposite order.
DecayReversed(e) == Equation(e.items[1], e.items[2], Dict(Reverse(e.items[3].pairs)))

\* C12: in a call of get_equation on a valid record with an order >= 0 the
\* clauses follow the key order of the creation map, one clause per rate key
\* with a creation or decay entry: the loop has appended the clauses of the
\* creation map's first keys, the returned right-hand side holds all of them
\* in that order, and the record with the decay map's keys inserted in the
\* opposite order gives the same result.
C12_CreationKeyOrder ==
    (call = "get_equation" /\ ValidRecord(equation) /\ order >= 0)
      => /\ pc = "loop"
            => /\ keys = CreationKeys
               /\ equation_string = ClausesUpTo(ki - 1)
         /\ Returned
            => /\ equation_string = ClausesUpTo(Len(CreationKeys))
               /\ Unspaced(RightHandSide) = Unspaced(DropPlus(equation_string))
         /\ pc = "done"
            => result = get_equation(DecayReversed(equation), order, seed)

\* A returned equation of two different clauses whose decay map lists the two
\* keys in the opposite order.
C12_Witness ==
    /\ call = "get_equation"
    /\ ValidRecord(equation)
    /\ order >= 0
    /\ Returned
    /\ Len(CreationKeys) = 2
    /\ DecayKeys = Reverse(CreationKeys)
    /\ ClauseOf(CreationKeys[1]) # <<>>
    /\ ClauseOf(CreationKeys[2]) # <<>>
    /\ Unspaced(ClauseOf(CreationKeys[1])) # Unspaced(ClauseOf(CreationKeys[2]))


---------------------------------------------------------------------------
(* C13 *)

\* The target state as one token: "P", every entry's label and index, "[t]".
TargetText ==
    <<"P">> \o EntriesText(equation.items[1].items, 1) \o <<"[", "t", "]">>

LeftHandSide ==
    <<"D", "[">> \o TargetText \o <<",", " ", "t", "]", " ", "=", "=", " ">>

\* text occurs in whole.
Occurs(text, whole) ==
    \E i \in 0..(Len(whole) - Len(text)) : SubSeq(whole, i + 1, i + Len(text)) = text

\* Every weighted state of dict d is in the loop's text, rendered with the order
\* of the call.
RenderedWithOrder(d) ==
    \A i \in 1..Len(d.pairs) :
        \A j \in 1..Len(d.pairs[i].val) :
            Occurs(get_state(d.pairs[i].val[j][1], order, seed).text, equation_string)

\* C13: for a valid record and an order k >= 0 the returned string starts with
\* "D[" + get_state(target, 0) + ", t] == ": the target state is rendered as
\* one exact token whatever k is, while the weighted states of the lists are
\* rendered with order k.
C13_TargetExact ==
    (call = "get_equation" /\ ValidRecord(equation) /\ order >= 0)
      => /\ get_state(equation.items[1], 0, seed) = Return(TargetText)
         /\ pc = "loop" => diff_state = LeftHandSide
         /\ Returned
            => /\ IsPrefix(LeftHandSide, result.text)
               /\ diff_state = LeftHandSide
               /\ RenderedWithOrder(equation.items[2])
               /\ RenderedWithOrder(equation.items[3])

\* A returned equation whose order is below the length of the target state and
\* of a weighted state, which is rendered in the reduced form.
C13_Witness ==
    /\ call = "get_equation"
    /\ ValidRecord(equation)
    /\ Returned
    /\ order > 0
    /\ order < Len(equation.items[1].items)
    /\ get_state(equation.items[1], order, seed).text # TargetText
    /\ \E j \in 1..Len(Creation(keys[1])) :
          /\ order < Len(Creation(keys[1])[j][1].items)
          /\ HasPair(Rendered(Creation(keys[1])[j][1]), "/", "(")


---------------------------------------------------------------------------
(* C14 *)

DistinctEntries(s) ==
    \A i \in 1..Len(s) : \A j \in 1..Len(s) : i # j => s[i] # s[j]

\* The pairs of windows (i, j), i < j, that lie less than k apart, in scan
\* order; m is the number of windows.
OverlappingPairs(m, k) == SelectSeq(ScanPairs(m), LAMBDA q : q[2] - q[1] < k)

\* A sub-state as one token.
Token(sub) == <<"P">> \o EntriesText(sub, 1) \o <<"[", "t", "]">>

Tokens(subs) == Join(<<" ">>, [i \in 1..Len(subs) |-> Token(subs[i])])

\* C14: in the mean-field branch (0 < k < n) of a state with pairwise distinct
\* entries the denominator holds one factor for every pair of windows (i, j),
\* i < j, j - i < k, neighbours or not, made of the entries at positions
\* j..i+k-1, and for k = 1 the text has no denominator; with repeated entries
\* every non-empty intersection of a window pair is a factor of its own, equal
\* ones included; the factors are appended as "/(" tokens ")".
C14_DenominatorFactors ==
    Reduced
      => LET s == state.items
             k == order
             pairs == OverlappingPairs(Len(s) - k + 1, k)
         IN  /\ DistinctEntries(s)
                => /\ Len(denominator_states) = Len(pairs)
                   /\ \A x \in 1..Len(pairs) :
                        /\ Elements(denominator_states[x])
                             = {s[p] : p \in pairs[x][2]..(pairs[x][1] + k - 1)}
                        /\ Len(denominator_states[x]) = pairs[x][1] + k - pairs[x][2]
                   /\ k = 1 => /\ denominator_states = <<>>
                               /\ ~HasChar(result.text, "/")
             /\ Len(denominator_states) = Len(ScanIntersections)
             /\ \A x \in 1..Len(denominator_states) :
                  /\ Elements(denominator_states[x]) = ScanIntersections[x]
                  /\ Len(denominator_states[x]) = Cardinality(ScanIntersections[x])
             /\ result = Return(Tokens(numerator_states)
                                  \o (IF denominator_states = <<>> THEN <<>>
                                      ELSE <<"/", "(">> \o Tokens(denominator_states)
                                                        \o <<")">>))

\* Five distinct entries at order 3: the windows 1 and 3 are no neighbours and
\* share the entry at position 3.
C14_Witness ==
    /\ Reduced
    /\ DistinctEntries(state.items)
    /\ Len(state.items) = 5
    /\ order = 3
    /\ Len(denominator_states) = 3
    /\ denominator_states[2] = <<state.items[3]>>

\* Repeated entries: two window pairs give the same factor twice.
C14_RepeatedFactors ==
    /\ Reduced
    /\ ~DistinctEntries(state.items)
    /\ \E x \in 1..Len(denominator_states) : \E y \in 1..Len(denominator_states) :
          x # y /\ denominator_states[x] = denominator_states[y]


---------------------------------------------------------------------------
(* C15 *)

\* Every weighted state of dict d, rendered with the order of the call, is in
\* the returned right-hand side as it was rendered.
StatesIntact(d) ==
    \A i \in 1..Len(d.pairs) :
        \A j \in 1..Len(d.pairs[i].val) :
            Occurs(Rendered(d.pairs[i].val[j][1]), RightHandSide)

\* The rate of every key with a clause is in the returned right-hand side as
\* get_rate rendered it.
RatesIntact ==
    \A i \in 1..Len(ClauseKeys) : Occurs(get_rate(ClauseKeys[i]), RightHandSide)

HasSign(text) == HasChar(text, "+") \/ HasChar(text, "-")

\* A rate key or a weighted state of the record renders with a '+' or a '-'.
SignedToken ==
    \/ \E i \in 1..Len(ClauseKeys) : HasSign(get_rate(ClauseKeys[i]))
    \/ \E n \in 2..3 : \E i \in 1..Len(equation.items[n].pairs) :
          \E j \in 1..Len(equation.items[n].pairs[i].val) :
              HasSign(Rendered(equation.items[n].pairs[i].val[j][1]))

\* C15: rate tokens and state tokens are opaque to the normalisation: in the
\* string returned for a valid record every rendered rate and every rendered
\* state stands character for character, also when a label, an index or a
\* rate name holds a '+' or a '-'.
C15_TokensOpaque ==
    (call = "get_equation" /\ ValidRecord(equation) /\ order >= 0 /\ Returned)
      => /\ RatesIntact
         /\ StatesIntact(equation.items[2])
         /\ StatesIntact(equation.items[3])

\* Where no rate and no state holds a '+' or a '-', the tokens are intact.
C15_UnsignedTokensIntact ==
    (call = "get_equation" /\ ValidRecord(equation) /\ order >= 0 /\ Returned
       /\ ~SignedToken)
      => /\ RatesIntact
         /\ StatesIntact(equation.items[2])
         /\ StatesIntact(equation.items[3])

====
